---- MODULE Spec2Model ----
(***************************************************************************)
(* Model of the ultimate_data_arc library: DataArc::new / internal_new     *)
(* (magic check, header parsing, section offsets) and DataArc::get_file    *)
(* (hash -> bucket -> entry lookup, resolution chain, extraction).         *)
(*                                                                         *)
(* Representation.  The archive file and the metadata buffer are byte      *)
(* sequences.  A u32 / u64 field of a parsed struct is kept as its         *)
(* little-endian byte string (4 / 8 digits base 256, least significant     *)
(* first), so that full-width values such as the magic number or           *)
(* 0xFFFFFFFF are representable; `as usize` is ToNat, and the u32 / u64    *)
(* additions of the code are digit-wise additions with a carry out.        *)
(* usize values (offsets into the buffer, lengths) are plain naturals.     *)
(***************************************************************************)
EXTENDS Integers, Sequences, FiniteSets, TLC

\* ------------------------------------------------------------------------
\* Program constants (src/src/parse.rs)
\* ------------------------------------------------------------------------
ARC_HEADER_SIZE == 40
COMPRESSED_NODE_HEADER_SIZE == 16
NODE_HEADER_SIZE == 68
ENTRY_TRIPLET_SIZE == 12
ENTRY_PAIR_SIZE == 8
BIG_HASH_ENTRY_SIZE == 52
TREE_ENTRY_SIZE == 40
FILE_PAIR_SIZE == 16
BIG_FILE_ENTRY_SIZE == 28
FILE_ENTRY_SIZE == 16
HASH_BUCKET_SIZE == 8
\* size of one bulkfile_lookup_to_fileidx record (the literal 4 of lib.rs:99)
FILEIDX_SIZE == 4
\* threshold below which the first u32 of the node section is a
\* CompressedNodeHeader.data_start (the literal 0x100 of lib.rs:80)
COMPRESSED_LIMIT == 256
\* 0xabcdef9876543210 as written to disk by a little-endian u64
MAGIC == <<16, 50, 84, 118, 152, 239, 205, 171>>

\* ------------------------------------------------------------------------
\* Little-endian integers
\* ------------------------------------------------------------------------
Zeros(n) == [i \in 1..n |-> 0]

\* value of a little-endian digit string (`as usize` of a u32, or
\* LittleEndian::read_u32); used only on strings whose value is below 2^31
RECURSIVE ToNat(_)
ToNat(bs) == IF bs = <<>> THEN 0 ELSE bs[1] + 256 * ToNat(Tail(bs))

\* the w-digit little-endian string of n
RECURSIVE ToLE(_, _)
ToLE(n, w) == IF w = 0 THEN <<>> ELSE <<n % 256>> \o ToLE(n \div 256, w - 1)

\* TRUE iff the digits above the low `keep` ones are all zero
HighZero(bs, keep) == \A i \in (keep + 1)..Len(bs) : bs[i] = 0

\* digit-wise addition of two strings of equal width: the wrapped sum and
\* the carry out of the top digit (the overflow of a u32 / u64 addition)
RECURSIVE AddCarry(_, _, _)
AddCarry(a, b, c) ==
    IF a = <<>> THEN [sum |-> <<>>, carry |-> c]
    ELSE LET s == a[1] + b[1] + c
             r == AddCarry(Tail(a), Tail(b), s \div 256)
         IN  [sum |-> <<s % 256>> \o r.sum, carry |-> r.carry]

AddLE(a, b) == AddCarry(a, b, 0)

\* hash % n for a u64 digit string (Horner, most significant digit first)
RECURSIVE ModLE(_, _)
ModLE(bs, n) ==
    IF bs = <<>> THEN 0
    ELSE (ModLE(Tail(bs), n) * 256 + bs[1]) % n

\* u32 -> u64 widening (`as u64`)
AsU64(b4) == b4 \o Zeros(4)

\* bit k (0 = least significant) of a byte
Bit(b, k) == (b \div (2 ^ k)) % 2 = 1

\* ------------------------------------------------------------------------
\* Slices
\* ------------------------------------------------------------------------
\* &data[from..] with a 0-based offset; the caller has checked from <= Len
From(data, from) == SubSeq(data, from + 1, Len(data))
\* the n bytes at 0-based offset off
Bytes(data, off, n) == SubSeq(data, off + 1, off + n)

\* ------------------------------------------------------------------------
\* Fixed-record codec (src/src/parse.rs).  A scroll `pread_with(0, LE)`
\* fails (ok = FALSE) when the slice is shorter than the record; the
\* hand-written read_* functions index the slice and panic instead, so each
\* has a companion predicate telling when the slice is long enough.
\* ------------------------------------------------------------------------
pread_ArcHeader(data) ==
    IF Len(data) < ARC_HEADER_SIZE THEN [ok |-> FALSE]
    ELSE [ok |-> TRUE,
          music_file_section_offset |-> Bytes(data, 0, 8),
          file_section_offset       |-> Bytes(data, 8, 8),
          music_section_offset      |-> Bytes(data, 16, 8),
          node_section_offset       |-> Bytes(data, 24, 8),
          unk_section_offset        |-> Bytes(data, 32, 8)]

pread_CompressedNodeHeader(data) ==
    IF Len(data) < COMPRESSED_NODE_HEADER_SIZE THEN [ok |-> FALSE]
    ELSE [ok |-> TRUE,
          data_start     |-> Bytes(data, 0, 4),
          decomp_size    |-> Bytes(data, 4, 4),
          comp_size      |-> Bytes(data, 8, 4),
          zstd_comp_size |-> Bytes(data, 12, 4)]

pread_NodeHeader(data) ==
    IF Len(data) < NODE_HEADER_SIZE THEN [ok |-> FALSE]
    ELSE [ok |-> TRUE,
          file_size               |-> Bytes(data, 0, 4),
          folder_count            |-> Bytes(data, 4, 4),
          file_count1             |-> Bytes(data, 8, 4),
          tree_count              |-> Bytes(data, 12, 4),
          sub_files1_count        |-> Bytes(data, 16, 4),
          file_lookup_count       |-> Bytes(data, 20, 4),
          hash_folder_count       |-> Bytes(data, 24, 4),
          file_information_count  |-> Bytes(data, 28, 4),
          file_count2             |-> Bytes(data, 32, 4),
          sub_files2_count        |-> Bytes(data, 36, 4),
          unk1                    |-> Bytes(data, 40, 4),
          unk2                    |-> Bytes(data, 44, 4),
          another_hash_table_size |-> Bytes(data, 48, 1),
          unk3                    |-> Bytes(data, 49, 1),
          unk4                    |-> Bytes(data, 50, 2),
          movie_count             |-> Bytes(data, 52, 4),
          part1_count             |-> Bytes(data, 56, 4),
          part2_count             |-> Bytes(data, 60, 4),
          music_file_count        |-> Bytes(data, 64, 4)]

\* read_pair: a 40-bit hash zero-padded to a u64, a 24-bit meta zero-padded
\* to a u32
can_read_pair(data) == Len(data) >= ENTRY_PAIR_SIZE
read_pair(data) ==
    [hash |-> Bytes(data, 0, 5) \o Zeros(3),
     meta |-> Bytes(data, 5, 3) \o Zeros(1)]

can_read_big_hash_entry(data) == Len(data) >= BIG_HASH_ENTRY_SIZE
read_big_hash_entry(data) ==
    [path            |-> read_pair(From(data, 0)),
     folder          |-> read_pair(From(data, 8)),
     parent          |-> read_pair(From(data, 16)),
     hash4           |-> read_pair(From(data, 24)),
     suboffset_start |-> Bytes(data, 32, 4),
     num_files       |-> Bytes(data, 36, 4)]

can_read_tree_entry(data) == Len(data) >= TREE_ENTRY_SIZE
read_tree_entry(data) ==
    [path            |-> read_pair(From(data, 0)),
     ext             |-> read_pair(From(data, 8)),
     folder          |-> read_pair(From(data, 16)),
     file            |-> read_pair(From(data, 24)),
     suboffset_index |-> Bytes(data, 32, 4),
     flags           |-> Bytes(data, 36, 4)]

pread_BigFileEntry(data) ==
    IF Len(data) < BIG_FILE_ENTRY_SIZE THEN [ok |-> FALSE]
    ELSE [ok |-> TRUE,
          offset          |-> Bytes(data, 0, 8),
          decomp_size     |-> Bytes(data, 8, 4),
          comp_size       |-> Bytes(data, 12, 4),
          suboffset_index |-> Bytes(data, 16, 4),
          files           |-> Bytes(data, 20, 4),
          unk3            |-> Bytes(data, 24, 4)]

pread_FileEntry(data) ==
    IF Len(data) < FILE_ENTRY_SIZE THEN [ok |-> FALSE]
    ELSE [ok |-> TRUE,
          offset      |-> Bytes(data, 0, 4),
          comp_size   |-> Bytes(data, 4, 4),
          decomp_size |-> Bytes(data, 8, 4),
          flags       |-> Bytes(data, 12, 4)]

pread_HashBucket(data) ==
    IF Len(data) < HASH_BUCKET_SIZE THEN [ok |-> FALSE]
    ELSE [ok |-> TRUE,
          index       |-> Bytes(data, 0, 4),
          num_entries |-> Bytes(data, 4, 4)]

\* ------------------------------------------------------------------------
\* Flag accessors of TreeEntry and FileEntry.  lib.rs calls them, but their
\* definitions are not among the source files; they are modelled from the
\* specification (sections 4.5 and 9) as tests of distinct bits of `flags`.
\* ------------------------------------------------------------------------
TreeEntry_redirect(t)        == Bit(t.flags[3], 5)
TreeEntry_suboffset_index(t) == Bit(t.flags[3], 4)
FileEntry_suboffset_redir(f)          == Bit(f.flags[4], 6)
FileEntry_suboffset_decompressed(f)   == Bit(f.flags[4], 3)
FileEntry_suboffset_compressed_zstd(f) == Bit(f.flags[4], 0) /\ Bit(f.flags[4], 1)
FileEntry_suboffset_tree_index(f)     == ToNat(SubSeq(f.flags, 1, 3))

\* ------------------------------------------------------------------------
\* hash40 (lib.rs:252).  A file name is represented by what hash40 reads of
\* it: the CRC-32 of its bytes (the value of the external crc crate, a u32)
\* and its length.
\* ------------------------------------------------------------------------
hash40(name) == name.crc \o <<name.len % 256>> \o Zeros(3)

\* ------------------------------------------------------------------------
\* The open file (std::fs::File): its bytes and a read cursor
\* ------------------------------------------------------------------------
\* Cursor positions at or beyond FarPos are identified: every file of the
\* model is shorter, so a read there fails the same way wherever it starts.
FarPos == 65536

Max(a, b) == IF a >= b THEN a ELSE b

\* Read::read_exact: n bytes at the cursor, or an UnexpectedEof error that
\* leaves the cursor at the end of the file
read_exact(bytes, pos, n) ==
    IF pos + n <= Len(bytes)
    THEN [ok |-> TRUE, data |-> Bytes(bytes, pos, n), pos |-> pos + n]
    ELSE [ok |-> FALSE, data |-> <<>>, pos |-> Max(pos, Len(bytes))]

\* Seek::seek(SeekFrom::Start(off)) for a u64 off: lseek rejects an offset
\* that is negative as an i64, and otherwise moves the cursor absolutely
seek_start(pos, off) ==
    IF off[8] >= 128 THEN [ok |-> FALSE, pos |-> pos]
    ELSE IF HighZero(off, 2) THEN [ok |-> TRUE, pos |-> ToNat(SubSeq(off, 1, 2))]
    ELSE [ok |-> TRUE, pos |-> FarPos]

\* ------------------------------------------------------------------------
\* DataArc::internal_new (lib.rs:69-137)
\* ------------------------------------------------------------------------
NoArc == [open |-> FALSE]

Failed(kind, pos) == [res |-> kind, arc |-> NoArc, pos |-> pos]

\* (variant: BigHashEntry records taken as 0x30 bytes long)
SectionOffsets_ShortBigHash(nh, files) ==
    LET bulkfile_hash_lookup == ENTRY_TRIPLET_SIZE * ToNat(nh.movie_count)
        bulkfiles_by_name == bulkfile_hash_lookup + ENTRY_PAIR_SIZE * ToNat(nh.part1_count)
        bulkfile_lookup_to_fileidx == bulkfiles_by_name + ENTRY_TRIPLET_SIZE * ToNat(nh.part1_count)
        file_pairs == bulkfile_lookup_to_fileidx + FILEIDX_SIZE * ToNat(nh.part2_count)
        another_hash_table == file_pairs + FILE_PAIR_SIZE * ToNat(nh.music_file_count)
        big_hashes == another_hash_table + ENTRY_TRIPLET_SIZE * ToNat(nh.another_hash_table_size)
        big_files == big_hashes + 48 * ToNat(nh.folder_count)
        folder_hash_lookup == big_files + BIG_FILE_ENTRY_SIZE * files
        trees == folder_hash_lookup + ENTRY_PAIR_SIZE * ToNat(nh.hash_folder_count)
        sub_files1 == trees + TREE_ENTRY_SIZE * ToNat(nh.tree_count)
        sub_files2 == sub_files1 + FILE_ENTRY_SIZE * ToNat(nh.sub_files1_count)
        folder_to_big_hash == sub_files2 + FILE_ENTRY_SIZE * ToNat(nh.sub_files2_count)
        file_lookup_buckets == folder_to_big_hash + ENTRY_PAIR_SIZE * ToNat(nh.folder_count)
    IN  [bulkfile_hash_lookup |-> bulkfile_hash_lookup,
         bulkfiles_by_name |-> bulkfiles_by_name,
         bulkfile_lookup_to_fileidx |-> bulkfile_lookup_to_fileidx,
         file_pairs |-> file_pairs,
         another_hash_table |-> another_hash_table,
         big_hashes |-> big_hashes,
         big_files |-> big_files,
         folder_hash_lookup |-> folder_hash_lookup,
         trees |-> trees,
         sub_files1 |-> sub_files1,
         sub_files2 |-> sub_files2,
         folder_to_big_hash |-> folder_to_big_hash,
         file_lookup_buckets |-> file_lookup_buckets]

\* lib.rs:96-108: the offsets that depend on the NodeHeader counts alone;
\* files is (file_count1 + file_count2) as usize
SectionOffsets(nh, files) ==
    LET bulkfile_hash_lookup == ENTRY_TRIPLET_SIZE * ToNat(nh.movie_count)
        bulkfiles_by_name == bulkfile_hash_lookup + ENTRY_PAIR_SIZE * ToNat(nh.part1_count)
        bulkfile_lookup_to_fileidx == bulkfiles_by_name + ENTRY_TRIPLET_SIZE * ToNat(nh.part1_count)
        file_pairs == bulkfile_lookup_to_fileidx + FILEIDX_SIZE * ToNat(nh.part2_count)
        another_hash_table == file_pairs + FILE_PAIR_SIZE * ToNat(nh.music_file_count)
        big_hashes == another_hash_table + ENTRY_TRIPLET_SIZE * ToNat(nh.another_hash_table_size)
        big_files == big_hashes + BIG_HASH_ENTRY_SIZE * ToNat(nh.folder_count)
        folder_hash_lookup == big_files + BIG_FILE_ENTRY_SIZE * files
        trees == folder_hash_lookup + ENTRY_PAIR_SIZE * ToNat(nh.hash_folder_count)
        sub_files1 == trees + TREE_ENTRY_SIZE * ToNat(nh.tree_count)
        sub_files2 == sub_files1 + FILE_ENTRY_SIZE * ToNat(nh.sub_files1_count)
        folder_to_big_hash == sub_files2 + FILE_ENTRY_SIZE * ToNat(nh.sub_files2_count)
        file_lookup_buckets == folder_to_big_hash + ENTRY_PAIR_SIZE * ToNat(nh.folder_count)
    IN  [bulkfile_hash_lookup |-> bulkfile_hash_lookup,
         bulkfiles_by_name |-> bulkfiles_by_name,
         bulkfile_lookup_to_fileidx |-> bulkfile_lookup_to_fileidx,
         file_pairs |-> file_pairs,
         another_hash_table |-> another_hash_table,
         big_hashes |-> big_hashes,
         big_files |-> big_files,
         folder_hash_lookup |-> folder_hash_lookup,
         trees |-> trees,
         sub_files1 |-> sub_files1,
         sub_files2 |-> sub_files2,
         folder_to_big_hash |-> folder_to_big_hash,
         file_lookup_buckets |-> file_lookup_buckets]

\* lib.rs:110: file_lookup from the first bucket record
FileLookupOffset(file_lookup_buckets, first_hash_bucket) ==
    file_lookup_buckets + HASH_BUCKET_SIZE * (ToNat(first_hash_bucket.num_entries) + 1)

\* lib.rs:111
NumbersOffset(file_lookup, nh) ==
    file_lookup + ENTRY_PAIR_SIZE * ToNat(nh.file_lookup_count)

\* lib.rs:94-136, once the node header and the payload buffer are read.
\* The u32 addition file_count1 + file_count2 panics on overflow in a build
\* with overflow checks (debug) and wraps in one without (release).
BuildArc(header, nh, buffer, pos, build) ==
    LET fc == AddLE(nh.file_count1, nh.file_count2)
        o  == SectionOffsets(nh, ToNat(fc.sum))
    IN  IF fc.carry = 1 /\ build = "debug" THEN Failed("Panic", pos)
        ELSE IF o.file_lookup_buckets > Len(buffer) THEN Failed("Panic", pos)
        ELSE LET fhb == pread_HashBucket(From(buffer, o.file_lookup_buckets))
             IN  IF ~fhb.ok THEN Failed("InternalError", pos)
                 ELSE LET file_lookup == FileLookupOffset(o.file_lookup_buckets, fhb)
                      IN  [res |-> "Ok",
                           pos |-> pos,
                           arc |-> [open |-> TRUE,
                                    header |-> header,
                                    buffer |-> buffer,
                                    first_hash_bucket |-> fhb,
                                    bulkfile_hash_lookup |-> o.bulkfile_hash_lookup,
                                    bulkfiles_by_name |-> o.bulkfiles_by_name,
                                    bulkfile_lookup_to_fileidx |-> o.bulkfile_lookup_to_fileidx,
                                    file_pairs |-> o.file_pairs,
                                    another_hash_table |-> o.another_hash_table,
                                    big_hashes |-> o.big_hashes,
                                    big_files |-> o.big_files,
                                    folder_hash_lookup |-> o.folder_hash_lookup,
                                    trees |-> o.trees,
                                    sub_files1 |-> o.sub_files1,
                                    sub_files2 |-> o.sub_files2,
                                    folder_to_big_hash |-> o.folder_to_big_hash,
                                    file_lookup_buckets |-> o.file_lookup_buckets,
                                    file_lookup |-> file_lookup,
                                    numbers |-> NumbersOffset(file_lookup, nh)]]

\* lib.rs:84-91: the uncompressed node section
ReadNodeSection(bytes, header, pos, build) ==
    LET s == seek_start(pos, header.node_section_offset)
    IN  IF ~s.ok THEN Failed("InternalError", s.pos)
        ELSE LET r == read_exact(bytes, s.pos, NODE_HEADER_SIZE)
             IN  IF ~r.ok THEN Failed("InternalError", r.pos)
                 ELSE LET nh == pread_NodeHeader(r.data)
                          b  == read_exact(bytes, r.pos, ToNat(nh.file_size) - NODE_HEADER_SIZE)
                      IN  IF ~b.ok THEN Failed("InternalError", b.pos)
                          ELSE BuildArc(header, nh, b.data, b.pos, build)

\* lib.rs:69-92
internal_new(bytes, pos, build) ==
    LET h == read_exact(bytes, pos, ARC_HEADER_SIZE)
    IN  IF ~h.ok THEN Failed("InternalError", h.pos)
        ELSE LET header == pread_ArcHeader(h.data)
                 s == seek_start(h.pos, header.node_section_offset)
             IN  IF ~s.ok THEN Failed("InternalError", s.pos)
                 ELSE LET c == read_exact(bytes, s.pos, COMPRESSED_NODE_HEADER_SIZE)
                      IN  IF ~c.ok THEN Failed("InternalError", c.pos)
                          ELSE LET compressed == pread_CompressedNodeHeader(c.data)
                               IN  IF HighZero(compressed.data_start, 2)
                                      /\ ToNat(SubSeq(compressed.data_start, 1, 2)) < COMPRESSED_LIMIT
                                   THEN Failed("Panic", c.pos)  \* unimplemented!()
                                   ELSE ReadNodeSection(bytes, header, c.pos, build)

\* (variant: a failed read of the magic number is not handled, and parsing
\* goes on)
DataArc_new_IgnoresShortRead(bytes, build) ==
    LET m == read_exact(bytes, 0, 8)
    IN  IF m.ok /\ m.data # MAGIC THEN Failed("NotDataArc", m.pos)
        ELSE internal_new(bytes, m.pos, build)

\* DataArc::new (lib.rs:57-67)
DataArc_new(bytes, build) ==
    LET m == read_exact(bytes, 0, 8)
    IN  IF ~m.ok THEN Failed("NotDataArc", m.pos)
        ELSE IF m.data # MAGIC THEN Failed("NotDataArc", m.pos)
        ELSE internal_new(bytes, m.pos, build)

\* ------------------------------------------------------------------------
\* zstd::block::decompress_to_buffer (external crate), at its interface:
\* the source either is a well-formed frame, whose content is copied to the
\* destination and whose content length is returned, or it is not, and the
\* call fails; it also fails when the content does not fit the destination.
\* A frame of the model is the magic, one length byte n, and n content bytes.
\* ------------------------------------------------------------------------
ZstdMagic == <<40, 181, 47, 253>>
ZstdFrame(content) == ZstdMagic \o <<Len(content)>> \o content

decompress_to_buffer(src, capacity) ==
    IF Len(src) >= 5 /\ SubSeq(src, 1, 4) = ZstdMagic /\ Len(src) = 5 + src[5]
       /\ src[5] <= capacity
    THEN [ok |-> TRUE, copied |-> src[5],
          dst |-> SubSeq(src, 6, Len(src)) \o Zeros(capacity - src[5])]
    ELSE [ok |-> FALSE, copied |-> 0, dst |-> Zeros(capacity)]

\* ------------------------------------------------------------------------
\* DataArc::get_file (lib.rs:139-210) and bucket_search (lib.rs:213-222).
\* The outcome of a call: its result, the returned bytes, the cursor it
\* leaves, and a trace `g` of what the call read on the way (which
\* EntryPairs it compared, which records it resolved, where it read the
\* file), kept for stating properties.
\* ------------------------------------------------------------------------
None == [ok |-> FALSE]
G0 == [bucket |-> None, examined |-> <<>>, entry |-> None, tree |-> None,
       subidx |-> -1, sub_file |-> None, big_file |-> None,
       readAt |-> -1, readLen |-> -1, wrapped |-> FALSE, copied |-> -1]

Out(res, data, pos, g) == [res |-> res, data |-> data, pos |-> pos, g |-> g]

\* the loop of bucket_search from index i on: count is the number of
\* EntryPairs the loop visits
RECURSIVE Scan(_, _, _, _, _, _)
Scan(buffer, hash, start_index, i, count, seen) ==
    IF i >= count THEN [res |-> "FileNotFound", examined |-> seen]
    ELSE LET at == start_index + ENTRY_PAIR_SIZE * i
         IN  IF at > Len(buffer) \/ ~can_read_pair(From(buffer, at))
             THEN [res |-> "Panic", examined |-> seen]
             ELSE LET pair == read_pair(From(buffer, at))
                  IN  IF pair.hash = hash
                      THEN [res |-> "Ok", examined |-> Append(seen, i), pair |-> pair]
                      ELSE Scan(buffer, hash, start_index, i + 1, count, Append(seen, i))

\* Number of EntryPairs bucket_search visits (lib.rs:215)
ScanCount(arc, bucket) == ToNat(arc.first_hash_bucket.num_entries)

bucket_search(arc, hash, bucket) ==
    Scan(arc.buffer, hash,
         arc.file_lookup + ENTRY_PAIR_SIZE * ToNat(bucket.index),
         0, ScanCount(arc, bucket), <<>>)

\* lib.rs:197: file_section_offset + big_file.offset + sub_file.offset as u64 * 4
\* in u64 arithmetic; carry = 1 when either addition overflows
PhysicalOffset(header, big_file, sub_file) ==
    LET x2 == AddLE(AsU64(sub_file.offset), AsU64(sub_file.offset)).sum
        x4 == AddLE(x2, x2).sum
        a  == AddLE(header.file_section_offset, big_file.offset)
        b  == AddLE(a.sum, x4)
    IN  [sum |-> b.sum, carry |-> Max(a.carry, b.carry)]

\* (variant: the seek is left out, the read starts at the cursor)
SeekTo_NoSeek(pos, off) == [ok |-> TRUE, pos |-> pos]

\* the seek of lib.rs:197
SeekTo(pos, off) == seek_start(pos, off)

\* lib.rs:196-209
Extract(arc, bytes, pos, sub_file, big_file, build, g) ==
    LET off == PhysicalOffset(arc.header, big_file, sub_file)
    IN  IF off.carry = 1 /\ build = "debug" THEN Out("Panic", <<>>, pos, g)
        ELSE LET s == SeekTo(pos, off.sum)
             IN  IF ~s.ok THEN Out("InternalError", <<>>, s.pos, g)
                 ELSE LET r  == read_exact(bytes, s.pos, ToNat(sub_file.comp_size))
                          g1 == [g EXCEPT !.readAt = s.pos,
                                          !.readLen = ToNat(sub_file.comp_size),
                                          !.wrapped = (off.carry = 1)]
                      IN  IF ~r.ok THEN Out("InternalError", <<>>, r.pos, g1)
                          ELSE LET d  == decompress_to_buffer(r.data, ToNat(sub_file.decomp_size))
                                   g2 == [g1 EXCEPT !.copied = d.copied]
                               IN  IF ~d.ok THEN Out("InternalError", <<>>, r.pos, g2)
                                   ELSE IF d.copied # ToNat(sub_file.decomp_size)
                                   THEN Out("InternalError", <<>>, r.pos, g2)
                                   ELSE Out("Ok", d.dst, r.pos, g2)

\* (variant: the sub-offset redirect of the FileEntry is not followed)
EffectiveIndex_NoRedirect(arc, tree) ==
    IF TreeEntry_suboffset_index(tree)
    THEN [res |-> "Ok", idx |-> ToNat(tree.suboffset_index)]
    ELSE LET at == arc.sub_files1 + FILE_ENTRY_SIZE * ToNat(tree.ext.meta)
         IN  IF at > Len(arc.buffer) THEN [res |-> "Panic", idx |-> -1]
             ELSE LET file_entry == pread_FileEntry(From(arc.buffer, at))
                  IN  IF ~file_entry.ok THEN [res |-> "InternalError", idx |-> -1]
                      ELSE [res |-> "Ok", idx |-> ToNat(tree.ext.meta)]

\* lib.rs:170-180: the index of the authoritative FileEntry in sub_files1
EffectiveIndex(arc, tree) ==
    IF TreeEntry_suboffset_index(tree)
    THEN [res |-> "Ok", idx |-> ToNat(tree.suboffset_index)]
    ELSE LET at == arc.sub_files1 + FILE_ENTRY_SIZE * ToNat(tree.ext.meta)
         IN  IF at > Len(arc.buffer) THEN [res |-> "Panic", idx |-> -1]
             ELSE LET file_entry == pread_FileEntry(From(arc.buffer, at))
                  IN  IF ~file_entry.ok THEN [res |-> "InternalError", idx |-> -1]
                      ELSE IF FileEntry_suboffset_redir(file_entry)
                      THEN [res |-> "Ok",
                            idx |-> ToNat(tree.ext.meta) + FileEntry_suboffset_tree_index(file_entry)]
                      ELSE [res |-> "Ok", idx |-> ToNat(tree.ext.meta)]

\* lib.rs:181-194
ResolveFile(arc, bytes, pos, tree, idx, build, g) ==
    LET at == arc.sub_files1 + FILE_ENTRY_SIZE * idx
    IN  IF at > Len(arc.buffer) THEN Out("Panic", <<>>, pos, g)
        ELSE LET sub_file == pread_FileEntry(From(arc.buffer, at))
                 bh == arc.big_hashes + BIG_HASH_ENTRY_SIZE * ToNat(tree.path.meta)
             IN  IF ~sub_file.ok THEN Out("InternalError", <<>>, pos, g)
                 ELSE IF bh > Len(arc.buffer) \/ ~can_read_big_hash_entry(From(arc.buffer, bh))
                 THEN Out("Panic", <<>>, pos, g)
                 ELSE LET big_hash == read_big_hash_entry(From(arc.buffer, bh))
                          bf == arc.big_files + BIG_FILE_ENTRY_SIZE * ToNat(big_hash.path.meta)
                      IN  IF bf > Len(arc.buffer) THEN Out("Panic", <<>>, pos, g)
                          ELSE LET big_file == pread_BigFileEntry(From(arc.buffer, bf))
                                   g1 == [g EXCEPT !.sub_file = sub_file, !.big_file = big_file]
                               IN  IF ~big_file.ok THEN Out("InternalError", <<>>, pos, g)
                                   ELSE IF FileEntry_suboffset_decompressed(sub_file)
                                   THEN Out("Panic", <<>>, pos, g1)  \* unimplemented!()
                                   ELSE IF ~FileEntry_suboffset_compressed_zstd(sub_file)
                                   THEN Out("InternalError", <<>>, pos, g1)
                                   ELSE Extract(arc, bytes, pos, sub_file, big_file, build, g1)

\* lib.rs:163-180
ResolveTree(arc, bytes, pos, entry, build, g) ==
    LET at == arc.trees + TREE_ENTRY_SIZE * ToNat(entry.meta)
    IN  IF at > Len(arc.buffer) \/ ~can_read_tree_entry(From(arc.buffer, at))
        THEN Out("Panic", <<>>, pos, g)
        ELSE LET tree == read_tree_entry(From(arc.buffer, at))
                 g1 == [g EXCEPT !.tree = tree @@ [ok |-> TRUE]]
             IN  IF TreeEntry_redirect(tree) THEN Out("Panic", <<>>, pos, g1)  \* unimplemented!()
                 ELSE LET e == EffectiveIndex(arc, tree)
                      IN  IF e.res # "Ok" THEN Out(e.res, <<>>, pos, g1)
                          ELSE ResolveFile(arc, bytes, pos, tree, e.idx, build,
                                           [g1 EXCEPT !.subidx = e.idx])

\* lib.rs:158-162
get_file(arc, bytes, pos, name, build) ==
    LET hash == hash40(name)
        num_buckets == ToNat(arc.first_hash_bucket.num_entries)
    IN  IF num_buckets = 0 THEN Out("Panic", <<>>, pos, G0)  \* remainder by zero
        ELSE LET offset == arc.file_lookup_buckets
                             + HASH_BUCKET_SIZE * (ModLE(hash, num_buckets) + 1)
             IN  IF offset > Len(arc.buffer) THEN Out("Panic", <<>>, pos, G0)
                 ELSE LET bucket == pread_HashBucket(From(arc.buffer, offset))
                      IN  IF ~bucket.ok THEN Out("InternalError", <<>>, pos, G0)
                          ELSE LET e == bucket_search(arc, hash, bucket)
                                   g == [G0 EXCEPT !.bucket = bucket, !.examined = e.examined]
                               IN  IF e.res # "Ok" THEN Out(e.res, <<>>, pos, g)
                                   ELSE ResolveTree(arc, bytes, pos, e.pair, build,
                                                    [g EXCEPT !.entry = e.pair @@ [ok |-> TRUE]])

\* ------------------------------------------------------------------------
\* Input archives.  An archive file is laid out from a description d by the
\* encoders below (the inverse of the record layouts of parse.rs):
\*   magic | ArcHeader | NodeHeader | metadata tables | file section
\* ------------------------------------------------------------------------
RECURSIVE Flatten(_)
Flatten(ss) == IF ss = <<>> THEN <<>> ELSE Head(ss) \o Flatten(Tail(ss))

Fill(n) == [i \in 1..n |-> 238]

EncPair(hash, meta) == SubSeq(hash, 1, 5) \o ToLE(meta, 3)
EncBucket(b) == ToLE(b.index, 4) \o ToLE(b.count, 4)

\* TreeEntry flags: kind "redirect", "direct" (suboffset_index usable) or
\* "indirect" (through ext.meta)
TreeFlags(kind) ==
    <<0, 0, CASE kind = "redirect" -> 32 [] kind = "direct" -> 16 [] OTHER -> 0, 0>>
EncTree(t) ==
    EncPair(t.hash, t.path_meta) \o EncPair(t.hash, t.ext_meta)
      \o EncPair(Zeros(8), 0) \o EncPair(Zeros(8), 0)
      \o ToLE(t.suboffset_index, 4) \o TreeFlags(t.kind)

\* FileEntry flags: the low three bytes carry suboffset_tree_index
FileFlags(f) ==
    ToLE(f.tree_index, 3)
      \o <<(IF f.redir THEN 64 ELSE 0) + (IF f.decompressed THEN 8 ELSE 0)
            + (IF f.zstd THEN 3 ELSE 0)>>
EncFileEntry(f) ==
    ToLE(f.offset, 4) \o ToLE(f.comp_size, 4) \o ToLE(f.decomp_size, 4) \o FileFlags(f)

EncBigHash(file_index) == EncPair(Zeros(8), file_index) \o Fill(BIG_HASH_ENTRY_SIZE - 8)
EncBigFile(offset) == offset \o Fill(BIG_FILE_ENTRY_SIZE - 8)

\* the file section: two frames and a run of bytes that is no frame, at
\* offsets 0, 8 and 16 of the section
ContentA == <<1, 2, 3>>
ContentB == <<9>>
FileSection == ZstdFrame(ContentA) \o ZstdFrame(ContentB) \o <<0, 0>> \o <<7, 7, 7, 7, 7, 7>>

\* the tables in file order; the first table (at offset 0) holds the
\* movie_count EntryTriplets that precede bulkfile_hash_lookup
Tables(d, big_file_offset) ==
    Fill(ENTRY_TRIPLET_SIZE * d.movie)
      \o Fill(ENTRY_PAIR_SIZE * d.part1)
      \o Fill(ENTRY_TRIPLET_SIZE * d.part1)
      \o Fill(FILEIDX_SIZE * d.part2)
      \o Fill(FILE_PAIR_SIZE * d.music)
      \o Fill(ENTRY_TRIPLET_SIZE * d.aht)
      \o Flatten([i \in 1..d.folders |-> EncBigHash(0)])
      \o Flatten([i \in 1..d.nbig |-> EncBigFile(big_file_offset)])
      \o Fill(ENTRY_PAIR_SIZE * d.hash_folder)
      \o Flatten([i \in 1..Len(d.trees) |-> EncTree(d.trees[i])])
      \o Flatten([i \in 1..Len(d.sf1) |-> EncFileEntry(d.sf1[i])])
      \o Fill(FILE_ENTRY_SIZE * d.sf2)
      \o Fill(ENTRY_PAIR_SIZE * d.folders)
      \o EncBucket([index |-> 0, count |-> d.nb])
      \o Flatten([i \in 1..Len(d.buckets) |-> EncBucket(d.buckets[i])])
      \o Flatten([i \in 1..Len(d.pairs) |-> EncPair(hash40(d.pairs[i].name), d.pairs[i].meta)])
      \o d.numbers

EncNodeHeader(d, file_size) ==
    ToLE(file_size, 4) \o ToLE(d.folders, 4) \o d.fc1 \o ToLE(Len(d.trees), 4)
      \o ToLE(Len(d.sf1), 4) \o ToLE(Len(d.pairs) + d.lie_lookup, 4) \o ToLE(d.hash_folder, 4)
      \o ToLE(0, 4)
      \o d.fc2 \o ToLE(d.sf2 + d.lie_sf2, 4) \o ToLE(0, 4) \o ToLE(0, 4)
      \o <<d.aht, 0, 0, 0>>
      \o ToLE(d.movie, 4) \o ToLE(d.part1, 4) \o ToLE(d.part2, 4) \o ToLE(d.music, 4)

\* 2^64 - 16: with big_file.offset 16 too large, the u64 sum of lib.rs:197
\* wraps around to the true position of the file section
WrapBase == <<240, 255, 255, 255, 255, 255, 255, 255>>

BuildFile(d) ==
    LET tlen    == Len(Tables(d, Zeros(8))) - d.trunc
        section == 8 + ARC_HEADER_SIZE + NODE_HEADER_SIZE + tlen
        tables  == SubSeq(Tables(d, IF d.wrap THEN ToLE(section + 16, 8) ELSE Zeros(8)), 1, tlen)
        fso     == IF d.wrap THEN WrapBase ELSE ToLE(section, 8)
        nso     == CASE d.nso = "ok"  -> ToLE(8 + ARC_HEADER_SIZE, 8)
                     [] d.nso = "far" -> <<0, 0, 0, 1, 0, 0, 0, 0>>
                     [] OTHER         -> <<0, 0, 0, 0, 0, 0, 0, 128>>
        fsize   == IF d.file_size >= 0 THEN d.file_size ELSE NODE_HEADER_SIZE + tlen
        whole   == d.magic \o Zeros(8) \o fso \o Zeros(8) \o nso \o Zeros(8)
                     \o EncNodeHeader(d, fsize) \o tables \o FileSection
    IN  IF d.keep >= 0 THEN SubSeq(whole, 1, d.keep) ELSE whole

\* -- the families of archives the model is run on ---------------------------
MaxCalls == 2       \* get_file calls per opened archive
MaxBuckets == 3     \* buckets of the hash index
MaxCount == 1       \* records in each table that get_file does not read

\* file names: n4 is 256 bytes longer than n1 with the same CRC-32, so that
\* hash40 maps both to one hash
n1 == [crc |-> <<2, 0, 0, 0>>, len |-> 1]
n2 == [crc |-> <<3, 0, 0, 0>>, len |-> 1]
n3 == [crc |-> <<4, 0, 0, 0>>, len |-> 1]
n4 == [crc |-> <<2, 0, 0, 0>>, len |-> 257]
Stored == <<n1, n2, n3>>
Names == {n1, n2, n3, n4}

FE(offset, comp, decomp, idx, redir, dec, zstd) ==
    [offset |-> offset, comp_size |-> comp, decomp_size |-> decomp, tree_index |-> idx,
     redir |-> redir, decompressed |-> dec, zstd |-> zstd]
feA == FE(0, 8, 3, 0, FALSE, FALSE, TRUE)        \* frame A, sizes right
feB == FE(2, 6, 1, 0, FALSE, FALSE, TRUE)        \* frame B, sizes right
feLong == FE(0, 8, 5, 0, FALSE, FALSE, TRUE)     \* decomp_size above the content
feSmall == FE(0, 8, 2, 0, FALSE, FALSE, TRUE)    \* decomp_size below the content
feGarbage == FE(4, 6, 3, 0, FALSE, FALSE, TRUE)  \* no frame at the offset
feEof == FE(4, 200, 3, 0, FALSE, FALSE, TRUE)    \* comp_size beyond the file
feDecompressed == FE(0, 8, 3, 0, FALSE, TRUE, TRUE)
feUnknown == FE(0, 8, 3, 0, FALSE, FALSE, FALSE)
feRedir == FE(0, 8, 3, 1, TRUE, FALSE, FALSE)    \* sub-offset redirect by 1
feRedirZ == FE(2, 6, 1, 1, TRUE, FALSE, TRUE)
FileKinds == {feA, feB, feLong, feSmall, feGarbage, feEof, feDecompressed,
              feUnknown, feRedir, feRedirZ}

Tree(kind, idx, ext) ==
    [kind |-> kind, hash |-> hash40(n1), path_meta |-> 0, ext_meta |-> ext,
     suboffset_index |-> idx]
TreeKinds == {Tree("redirect", 0, 0)}
               \cup {Tree("direct", i, 1 - (i % 2)) : i \in 0..2}
               \cup {Tree("indirect", 2, j) : j \in 0..1}

\* the smallest payload DataArc::new reads: a node section whose first u32
\* (NodeHeader.file_size) is below COMPRESSED_LIMIT is taken as compressed
MinPayload == COMPRESSED_LIMIT - NODE_HEADER_SIZE

Base ==
    [magic |-> MAGIC, movie |-> 0, part1 |-> 0, part2 |-> 0, music |-> 0, aht |-> 0,
     hash_folder |-> 0, sf2 |-> 0, folders |-> 1, nbig |-> 1,
     fc1 |-> ToLE(1, 4), fc2 |-> ToLE(0, 4), wrap |-> FALSE,
     trees |-> <<Tree("direct", 0, 0)>>, sf1 |-> <<feA, feB>>,
     nb |-> 1, buckets |-> <<[index |-> 0, count |-> 1]>>,
     pairs |-> <<[name |-> n1, meta |-> 0]>>, numbers |-> <<>>,
     lie_lookup |-> 0, lie_sf2 |-> 0, trunc |-> 0, file_size |-> -1,
     nso |-> "ok", keep |-> -1]

Short(d, extra) == Max(0, MinPayload + extra - Len(Tables(d, Zeros(8))))
\* pad the payload at its end (after the last table) ...
PadBack(d, extra) == [d EXCEPT !.numbers = @ \o Fill(Short(d, extra))]
\* ... or at its front (in the first table), leaving its end as it is
PadFront(d) == [d EXCEPT !.movie = @ + (Short(d, 0) + ENTRY_TRIPLET_SIZE - 1) \div ENTRY_TRIPLET_SIZE]

\* A: table counts: each table that get_file does not read is empty or holds
\* k records, for every k up to MaxCount
FileCounts == {<<ToLE(1, 4), ToLE(0, 4), 1>>, <<ToLE(1, 4), ToLE(1, 4), 2>>,
               <<ToLE(0, 4), ToLE(0, 4), 0>>,
               <<<<255, 255, 255, 255>>, ToLE(2, 4), 1>>}
LayoutArchives ==
    {PadBack([Base EXCEPT !.movie = c[1] * k, !.part1 = c[2] * k, !.part2 = c[3] * k,
                          !.music = c[4] * k, !.aht = c[5] * k, !.hash_folder = c[6] * k,
                          !.sf2 = c[7] * k,
                          !.fc1 = f[1], !.fc2 = f[2], !.nbig = f[3]], 0)
       : c \in [1..7 -> {0, 1}], k \in 1..MaxCount, f \in FileCounts}

\* B: the hash index, built as the format defines it from the stored names:
\* bucket b holds the pairs whose hash is b modulo the number of buckets
BucketOf(i, nb) == ModLE(hash40(Stored[i]), nb)
IndexPairs(S, nb) ==
    IF nb = 0 THEN Flatten([i \in 1..Len(Stored) |-> IF i \in S THEN <<i>> ELSE <<>>])
    ELSE Flatten([b \in 1..nb |->
            Flatten([i \in 1..Len(Stored) |->
                IF i \in S /\ BucketOf(i, nb) = b - 1 THEN <<i>> ELSE <<>>])])
IndexBuckets(S, nb) ==
    [b \in 1..nb |->
        [index |-> Cardinality({i \in S : BucketOf(i, nb) < b - 1}),
         count |-> Cardinality({i \in S : BucketOf(i, nb) = b - 1})]]
Trailers == {<<>>, EncPair(hash40(n3), 2), Fill(ENTRY_PAIR_SIZE)}
LookupArchives ==
    {PadFront([Base EXCEPT
         !.trees = <<Tree("direct", 0, 0), Tree("direct", 1, 0), Tree("direct", 2, 0)>>,
         !.sf1 = <<feA, feB, feLong>>,
         !.nb = nb, !.buckets = IndexBuckets(S, nb),
         !.pairs = [k \in 1..Len(IndexPairs(S, nb)) |->
                       [name |-> Stored[IndexPairs(S, nb)[k]], meta |-> IndexPairs(S, nb)[k] - 1]],
         !.numbers = t])
       : S \in SUBSET (1..Len(Stored)), nb \in 0..MaxBuckets, t \in Trailers}

\* C: the resolution chain and the extraction
ChainArchives ==
    {PadBack([Base EXCEPT !.trees = <<t>>, !.sf1 = <<f1, f2>>, !.wrap = w], 0)
       : t \in TreeKinds, f1 \in FileKinds, f2 \in FileKinds, w \in BOOLEAN}

\* D: archives whose header counts, sizes or offsets do not fit the file
Truncations == {0, 8, 12, 16, 20, 24, 28}
MisfitArchives ==
    {[PadBack(Base, 28) EXCEPT !.numbers = <<>>, !.part2 = 8, !.trunc = t,
                               !.lie_lookup = l, !.lie_sf2 = s]
       : t \in Truncations, l \in {0, 40}, s \in {0, 20}}
    \cup {[PadBack(Base, 0) EXCEPT !.file_size = z] : z \in {16, 255, 256, 260}}
    \cup {[PadBack(Base, 0) EXCEPT !.keep = k] : k \in {8, 20, 48, 60, 116, 200, 310}}
    \cup {[PadBack(Base, 0) EXCEPT !.nso = o] : o \in {"far", "neg"}}

\* E: files that are not archives
BadMagics == {<<>>, <<16, 50, 84>>, SubSeq(MAGIC, 1, 7),
              [i \in 1..8 |-> MAGIC[9 - i]], [MAGIC EXCEPT ![8] = 170],
              Zeros(8)}
ForeignFiles ==
    {IF Len(m) < 8 THEN [Base EXCEPT !.magic = m, !.keep = Len(m)]
                   ELSE [PadBack(Base, 0) EXCEPT !.magic = m, !.file_size = z]
       : m \in BadMagics, z \in {-1, 16}}

Archives == LayoutArchives \cup LookupArchives \cup ChainArchives
              \cup MisfitArchives \cup ForeignFiles

\* ------------------------------------------------------------------------
\* The state machine: a caller opens one file and calls get_file on it
\* ------------------------------------------------------------------------
VARIABLES
    file,     \* the bytes of the file handed to DataArc::new
    build,    \* "debug" (overflow checks on) or "release" (off)
    pc,       \* "start", "open", "failed" (new returned Err) or "crashed" (panic)
    cursor,   \* the read cursor of the File
    arc,      \* the DataArc, NoArc while there is none
    opened,   \* the DataArc and the cursor as DataArc::new left them
    result,   \* what DataArc::new returned
    calls,    \* get_file calls made
    last      \* the latest get_file call: its name and its outcome

vars == <<file, build, pc, cursor, arc, opened, result, calls, last>>

NoCall == [name |-> n1, out |-> Out("none", <<>>, 0, G0)]

Init ==
    /\ file \in {BuildFile(d) : d \in Archives}
    /\ build \in {"debug", "release"}
    /\ pc = "start"
    /\ cursor = 0
    /\ arc = NoArc
    /\ opened = [arc |-> NoArc, cursor |-> 0]
    /\ result = "none"
    /\ calls = 0
    /\ last = NoCall

New ==
    /\ pc = "start"
    /\ LET r == DataArc_new(file, build)
       IN  /\ result' = r.res
           /\ arc' = r.arc
           /\ cursor' = r.pos
           /\ opened' = [arc |-> r.arc, cursor |-> r.pos]
           /\ pc' = CASE r.res = "Ok" -> "open"
                      [] r.res = "Panic" -> "crashed"
                      [] OTHER -> "failed"
    /\ UNCHANGED <<file, build, calls, last>>

GetFile ==
    /\ pc = "open"
    /\ calls < MaxCalls
    /\ \E name \in Names :
         LET o == get_file(arc, file, cursor, name, build)
         IN  /\ last' = [name |-> name, out |-> o]
             /\ cursor' = o.pos
             /\ pc' = IF o.res = "Panic" THEN "crashed" ELSE "open"
    /\ calls' = calls + 1
    /\ UNCHANGED <<file, build, arc, opened, result>>

Next == New \/ GetFile

Spec == Init /\ [][Next]_vars

\* ------------------------------------------------------------------------
\* Properties
\* ------------------------------------------------------------------------
HasMagic(bytes) == Len(bytes) >= 8 /\ SubSeq(bytes, 1, 8) = MAGIC

Called == calls > 0 /\ pc \in {"open", "crashed"}
G == last.out.g

\* the EntryPair at index k of the file_lookup table, when the buffer holds it
PairInBuffer(k) == arc.file_lookup + ENTRY_PAIR_SIZE * (k + 1) <= Len(arc.buffer)
PairAt(k) == read_pair(From(arc.buffer, arc.file_lookup + ENTRY_PAIR_SIZE * k))
\* the NodeHeader of the opened archive, and the length of its file_lookup table
OpenedNodeHeader ==
    pread_NodeHeader(Bytes(file, ToNat(SubSeq(arc.header.node_section_offset, 1, 2)),
                           NODE_HEADER_SIZE))
LookupCount == ToNat(OpenedNodeHeader.file_lookup_count)

\* C1: a file whose first 8 bytes are not the magic number, a file shorter
\* than 8 bytes included, makes DataArc::new return NotDataArc (never
\* InternalError, never a panic).
C1_NotDataArc ==
    (pc # "start" /\ ~HasMagic(file)) => result = "NotDataArc"

C1_Witness ==
    /\ pc = "failed" /\ result = "NotDataArc"
    /\ Len(file) > 0 /\ Len(file) < 8 /\ file = SubSeq(MAGIC, 1, Len(file))

\* the file has the magic number and its node section starts with a
\* CompressedNodeHeader whose data_start is below 0x100
CompressedNodeSection ==
    /\ HasMagic(file)
    /\ LET h == read_exact(file, 8, ARC_HEADER_SIZE)
       IN  /\ h.ok
           /\ LET s == seek_start(h.pos, pread_ArcHeader(h.data).node_section_offset)
                  c == read_exact(file, s.pos, COMPRESSED_NODE_HEADER_SIZE)
              IN  /\ s.ok /\ c.ok
                  /\ HighZero(pread_CompressedNodeHeader(c.data).data_start, 1)

\* C2: each unimplemented variant ends in an error value returned to the
\* caller: (1) a node section starting with data_start < 0x100 makes
\* DataArc::new return InternalError; (2) get_file on a redirect TreeEntry
\* and (3) get_file on a FileEntry flagged as decompressed return an error.
C2_UnsupportedVariantsReturnErrors ==
    /\ (pc # "start" /\ CompressedNodeSection) => result = "InternalError"
    /\ (Called /\ G.tree.ok /\ TreeEntry_redirect(G.tree))
          => last.out.res = "InternalError"
    /\ (Called /\ G.sub_file.ok /\ FileEntry_suboffset_decompressed(G.sub_file))
          => last.out.res = "InternalError"

\* an EntryPair with hash h is stored in the file_lookup table inside the
\* range of the bucket
StoredInBucket(h, bucket) ==
    \E j \in 0..(ToNat(bucket.num_entries) - 1) :
        /\ ToNat(bucket.index) + j < LookupCount
        /\ PairInBuffer(ToNat(bucket.index) + j)
        /\ PairAt(ToNat(bucket.index) + j).hash = h

\* C3: when an EntryPair with the hash of the requested name is stored in
\* the file_lookup table inside the range [index, index + num_entries) of
\* the bucket selected for that hash, the lookup of get_file returns an
\* EntryPair with exactly that hash.
C3_StoredHashIsFound ==
    (Called /\ G.bucket.ok /\ StoredInBucket(hash40(last.name), G.bucket))
        => (G.entry.ok /\ G.entry.hash = hash40(last.name))

\* no EntryPair of the file_lookup table has hash h
HashAbsent(h) ==
    \A k \in 0..(LookupCount - 1) : PairInBuffer(k) => PairAt(k).hash # h

\* C4: when no EntryPair of the file_lookup table has the hash of the
\* requested name, get_file returns FileNotFound (no data, no InternalError,
\* no panic).  The archives considered are those whose file_lookup table
\* lies inside the buffer and whose selected bucket record was read.
C4_AbsentHashIsNotFound ==
    (Called /\ arc.numbers <= Len(arc.buffer) /\ G.bucket.ok
            /\ HashAbsent(hash40(last.name)))
        => last.out.res = "FileNotFound"

\* C5: get_file does not depend on the calls made before it: a call returns
\* what the same call returns when it is the first on the freshly opened
\* archive, and it leaves the header, the buffer, first_hash_bucket and the
\* section offsets as DataArc::new set them; only the cursor may differ.
C5_GetFileIndependentOfHistory ==
    /\ pc = "open" => arc = opened.arc
    /\ (Called /\ last.out.res # "Panic") =>
          LET first == get_file(opened.arc, file, opened.cursor, last.name, build)
          IN  /\ last.out.res = first.res
              /\ last.out.data = first.data

C5_Witness ==
    /\ pc = "open" /\ calls >= 2 /\ last.out.res = "Ok"
    /\ cursor # opened.cursor /\ G.readAt # opened.cursor

\* the fifteen section offsets in their fixed order
Offsets(a) ==
    <<a.bulkfile_hash_lookup, a.bulkfiles_by_name, a.bulkfile_lookup_to_fileidx,
      a.file_pairs, a.another_hash_table, a.big_hashes, a.big_files,
      a.folder_hash_lookup, a.trees, a.sub_files1, a.sub_files2,
      a.folder_to_big_hash, a.file_lookup_buckets, a.file_lookup, a.numbers>>

\* size in bytes of the table that ends at offset number i: the table
\* before bulkfile_hash_lookup for i = 1, and so on in file order
TableBytes(nh, fhb) ==
    <<12 * ToNat(nh.movie_count),
      8 * ToNat(nh.part1_count),
      12 * ToNat(nh.part1_count),
      4 * ToNat(nh.part2_count),
      16 * ToNat(nh.music_file_count),
      12 * ToNat(nh.another_hash_table_size),
      52 * ToNat(nh.folder_count),
      28 * ToNat(AddLE(nh.file_count1, nh.file_count2).sum),
      8 * ToNat(nh.hash_folder_count),
      40 * ToNat(nh.tree_count),
      16 * ToNat(nh.sub_files1_count),
      16 * ToNat(nh.sub_files2_count),
      8 * ToNat(nh.folder_count),
      8 * (ToNat(fhb.num_entries) + 1),
      8 * ToNat(nh.file_lookup_count)>>

OffsetsAreRunningSums ==
    LET o == Offsets(arc)
        t == TableBytes(OpenedNodeHeader, arc.first_hash_bucket)
    IN  /\ o[1] = t[1]
        /\ \A i \in 2..15 : o[i] = o[i - 1] + t[i]

C7_ReadsAtPhysicalOffset ==
    /\ (Called /\ last.out.res = "Ok") =>
          LET off == PhysicalOffset(arc.header, G.big_file, G.sub_file)
          IN  /\ off.carry = 0
              /\ HighZero(off.sum, 2) /\ G.readAt = ToNat(SubSeq(off.sum, 1, 2))
              /\ G.readLen = ToNat(G.sub_file.comp_size)
              /\ Len(last.out.data) = ToNat(G.sub_file.decomp_size)
    /\ (Called /\ G.copied >= 0 /\ G.copied # ToNat(G.sub_file.decomp_size))
          => last.out.res = "InternalError"

\* C8: bucket_search compares the bucket.num_entries EntryPairs starting at
\* bucket.index, in increasing order, and no EntryPair outside
\* [bucket.index, bucket.index + bucket.num_entries).
C8_ScanStaysInBucket ==
    (Called /\ G.bucket.ok) =>
        /\ \A k \in 1..Len(G.examined) : G.examined[k] = k - 1
        /\ \A k \in 1..Len(G.examined) : G.examined[k] < ToNat(G.bucket.num_entries)
        /\ (last.out.res = "FileNotFound")
              => Len(G.examined) = ToNat(G.bucket.num_entries)

\* the FileEntry at index i of sub_files1
FileEntryAt(i) == pread_FileEntry(From(arc.buffer, arc.sub_files1 + FILE_ENTRY_SIZE * i))

ExpectedIndex(t) ==
    CASE Bit(t.flags[3], 4) -> ToNat(t.suboffset_index)
      [] ~Bit(t.flags[3], 4) /\ Bit(FileEntryAt(ToNat(t.ext.meta)).flags[4], 6)
           -> ToNat(t.ext.meta) + ToNat(SubSeq(FileEntryAt(ToNat(t.ext.meta)).flags, 1, 3))
      [] OTHER -> ToNat(t.ext.meta)

\* C9: for a non-redirect TreeEntry t the authoritative FileEntry is the one
\* at index t.suboffset_index when t is flagged directly usable; otherwise,
\* with f the FileEntry at t.ext.meta, at t.ext.meta + f.suboffset_tree_index()
\* when f is flagged a sub-offset redirect and at t.ext.meta when not.  The
\* sizes, the offset and the codec flags used for extraction are those of
\* that FileEntry.
C9_AuthoritativeFileEntry ==
    (Called /\ G.sub_file.ok) =>
        /\ ~TreeEntry_redirect(G.tree)
        /\ G.readLen >= 0 =>
              /\ ~FileEntry_suboffset_decompressed(FileEntryAt(ExpectedIndex(G.tree)))
              /\ FileEntry_suboffset_compressed_zstd(FileEntryAt(ExpectedIndex(G.tree)))
        /\ G.subidx = ExpectedIndex(G.tree)
        /\ G.sub_file = FileEntryAt(ExpectedIndex(G.tree))
        /\ G.readLen >= 0 =>
              /\ G.readLen = ToNat(FileEntryAt(ExpectedIndex(G.tree)).comp_size)
              /\ G.readAt =
                   seek_start(0, PhysicalOffset(arc.header, G.big_file,
                                                FileEntryAt(ExpectedIndex(G.tree))).sum).pos
        /\ last.out.res = "Ok" =>
              Len(last.out.data) = ToNat(FileEntryAt(ExpectedIndex(G.tree)).decomp_size)

C9_Witness ==
    /\ Called /\ last.out.res = "Ok"
    /\ ~TreeEntry_suboffset_index(G.tree)
    /\ FileEntry_suboffset_redir(FileEntryAt(ToNat(G.tree.ext.meta)))
    /\ G.subidx = ToNat(G.tree.ext.meta) + 1
    /\ G.subidx # ToNat(G.tree.suboffset_index)

\* the node header and the payload as internal_new reads them from the file
NodeAt == seek_start(0, pread_ArcHeader(Bytes(file, 8, ARC_HEADER_SIZE)).node_section_offset).pos
ReadHeader == read_exact(file, NodeAt, NODE_HEADER_SIZE)
ReadPayload ==
    read_exact(file, ReadHeader.pos,
               ToNat(pread_NodeHeader(ReadHeader.data).file_size) - NODE_HEADER_SIZE)
NodeSectionRead ==
    /\ HasMagic(file) /\ Len(file) >= 8 + ARC_HEADER_SIZE
    /\ ~CompressedNodeSection
    /\ ReadHeader.ok /\ ReadPayload.ok
\* the first bucket record, as the counts place it, does not fit the buffer
FirstBucketOutside ==
    LET nh == pread_NodeHeader(ReadHeader.data)
        fc == AddLE(nh.file_count1, nh.file_count2)
    IN  /\ fc.carry = 0
        /\ SectionOffsets(nh, ToNat(fc.sum)).file_lookup_buckets + HASH_BUCKET_SIZE
              > Len(ReadPayload.data)

\* C10: when DataArc::new is given a file with the magic number in which a
\* computed section offset, or the range of a record read while computing
\* the offsets, lies beyond the metadata buffer, it returns InternalError:
\* it returns no DataArc holding an offset past the end of the buffer and
\* it does not panic.
C10_OutOfBoundsIsInternalError ==
    /\ (pc = "open") => \A i \in 1..15 : Offsets(arc)[i] <= Len(arc.buffer)
    /\ (pc # "start" /\ NodeSectionRead /\ FirstBucketOutside)
          => result = "InternalError"

\* ------------------------------------------------------------------------
\* Supporting invariants: what holds of the lookup and of the extraction
\* apart from the scan bound of bucket_search and the unchecked u64 sum
\* ------------------------------------------------------------------------
\* the scan finds a stored hash that lies among the first
\* first_hash_bucket.num_entries pairs of its bucket
ScanFindsWithinGlobalBound ==
    (Called /\ G.bucket.ok
       /\ \E j \in 0..(ToNat(arc.first_hash_bucket.num_entries) - 1) :
             /\ j < ToNat(G.bucket.num_entries)
             /\ PairInBuffer(ToNat(G.bucket.index) + j)
             /\ PairAt(ToNat(G.bucket.index) + j).hash = hash40(last.name))
        => (G.entry.ok /\ G.entry.hash = hash40(last.name))

\* the read is at the unwrapped physical offset whenever the sum does not
\* overflow
ReadsAtOffsetUnlessWrapped ==
    (Called /\ last.out.res = "Ok" /\ ~G.wrapped) =>
        LET off == PhysicalOffset(arc.header, G.big_file, G.sub_file)
        IN  /\ off.carry = 0
            /\ G.readAt = seek_start(0, off.sum).pos
            /\ G.readLen = ToNat(G.sub_file.comp_size)
            /\ Len(last.out.data) = ToNat(G.sub_file.decomp_size)

====
